---- MODULE Spec2Model ----
(***************************************************************************)
(* purecloud2odbc: pull queue interval statistics from the PureCloud       *)
(* analytics API and upsert them into the QueueIntervalStats table through *)
(* ODBC (src/main.go).                                                     *)
(*                                                                         *)
(* Strings that end up inside SQL literals are sequences of one-character  *)
(* strings, so that quoting and unquoting are computed, not assumed.       *)
(* Metric values are integral, which %d and %f print without loss.         *)
(***************************************************************************)
EXTENDS Integers, Sequences, FiniteSets, TLC

VARIABLES pc, appConfig, table, hasIndex, queueMap, dataset, query,
          i, nChecks, stmts, lastTable, err, okSteps, run, firstTable,
          now, zone

vars == <<pc, appConfig, table, hasIndex, queueMap, dataset, query,
          i, nChecks, stmts, lastTable, err, okSteps, run, firstTable,
          now, zone>>

(***************************************************************************)
(* Bounds of the model.                                                    *)
(***************************************************************************)
MaxResults == 1
MaxData == 2
MaxDays == 3

SeqUpTo(S, n) == UNION {[1..k -> S] : k \in 0..n}

(***************************************************************************)
(* Strings and SQL literals.                                               *)
(***************************************************************************)
Quote == "'"

\* strings.Replace(s, "'", "''", -1)
RECURSIVE EscapeQuotes(_)
EscapeQuotes(s) ==
    IF s = <<>> THEN <<>>
    ELSE IF Head(s) = Quote THEN <<Quote, Quote>> \o EscapeQuotes(Tail(s))
    ELSE <<Head(s)>> \o EscapeQuotes(Tail(s))

\* The text s placed between two single quotes is one SQL string literal iff
\* every quote inside it is the first or the second half of a '' pair.
RECURSIVE WellQuoted(_)
WellQuoted(s) ==
    IF s = <<>> THEN TRUE
    ELSE IF Head(s) # Quote THEN WellQuoted(Tail(s))
    ELSE Len(s) >= 2 /\ s[2] = Quote /\ WellQuoted(Tail(Tail(s)))

\* The value the database reads from the literal 's': each '' is one quote.
RECURSIVE Unquote(_)
Unquote(s) ==
    IF s = <<>> THEN <<>>
    ELSE IF Head(s) # Quote THEN <<Head(s)>> \o Unquote(Tail(s))
    ELSE <<Quote>> \o Unquote(Tail(Tail(s)))

(***************************************************************************)
(* Metrics and the columns of QueueIntervalStats.                          *)
(***************************************************************************)
CountMetrics == {"nError", "nOffered", "nOutboundAbandoned", "nOutboundAttempted",
                 "nOutboundConnected", "nTransferred", "nOverSla"}

TimeMetrics == {"tAbandon", "tAcd", "tAcw", "tAgentResponseTime", "tAnswered",
                "tHandle", "tHeld", "tHeldComplete", "tIvr", "tTalk",
                "tTalkComplete", "tUserResponseTime"}

MaxColumn == [tAbandon |-> "mtAbandon", tAcd |-> "mtAcd", tAcw |-> "mtAcw",
              tAgentResponseTime |-> "mtAgentResponseTime", tAnswered |-> "mtAnswered",
              tHandle |-> "mtHandle", tHeld |-> "mtHeld",
              tHeldComplete |-> "mtHeldComplete", tIvr |-> "mtIvr", tTalk |-> "mtTalk",
              tTalkComplete |-> "mtTalkComplete",
              tUserResponseTime |-> "mtUserResponseTime"]

CountColumn == [tAbandon |-> "nAbandon", tAcd |-> "nAcd", tAcw |-> "nAcw",
                tAgentResponseTime |-> "nAgentResponseTime", tAnswered |-> "nAnswered",
                tHandle |-> "nHandle", tHeld |-> "nHeld",
                tHeldComplete |-> "nHeldComplete", tIvr |-> "nIvr", tTalk |-> "nTalk",
                tTalkComplete |-> "nTalkComplete",
                tUserResponseTime |-> "nUserResponseTime"]

MetricColumns == CountMetrics \cup TimeMetrics
                   \cup {MaxColumn[m] : m \in TimeMetrics}
                   \cup {CountColumn[m] : m \in TimeMetrics}

\* The metric variables declared inside the interval loop start at zero.
ZeroMetrics == [c \in MetricColumns |-> 0]

Recognized(name) == name \in CountMetrics \cup TimeMetrics

\* One case of the switch over metric.Metric.
ApplyMetric(cols, metric) ==
    IF metric.Metric \in CountMetrics
    THEN [cols EXCEPT ![metric.Metric] = metric.Stats.Count]
    ELSE [cols EXCEPT ![metric.Metric] = metric.Stats.Sum,
                      ![MaxColumn[metric.Metric]] = metric.Stats.Max,
                      ![CountColumn[metric.Metric]] = metric.Stats.Count]

\* for _, metric := range data.Metrics (all names recognized)
RECURSIVE CollectMetrics(_, _)
CollectMetrics(cols, metrics) ==
    IF metrics = <<>> THEN cols
    ELSE CollectMetrics(ApplyMetric(cols, Head(metrics)), Tail(metrics))

AllRecognized(metrics) == \A k \in 1..Len(metrics) : Recognized(metrics[k].Metric)

(***************************************************************************)
(* Interval strings.  data.Interval is "start/end"; it is modelled as the  *)
(* sequence of its "/"-separated fields.  A field is a text that is an     *)
(* RFC3339 timestamp (wall-clock second and zone designator) or is not.    *)
(***************************************************************************)
Timestamp(wall, z) == [rfc3339 |-> TRUE, wall |-> wall, zone |-> z]
NotATimestamp == [rfc3339 |-> FALSE, wall |-> 0, zone |-> "?"]
EmptyField == [rfc3339 |-> FALSE, wall |-> 0, zone |-> ""]

\* s = strings.Split(data.Interval, "/"); s[0]
SplitFirst(intervalText) ==
    IF intervalText = <<>> THEN EmptyField ELSE intervalText[1]

\* time.Parse(time.RFC3339, s[0])
ParseRFC3339(field) ==
    [ok |-> field.rfc3339, t |-> [wall |-> field.wall, zone |-> field.zone]]

\* interval.Format("2006-01-02 15:04:05"): the wall clock, the zone is dropped.
FormatTs(t) == t.wall

\* The ODBC driver binds a time.Time parameter by its wall-clock fields.
BindTs(t) == t.wall

(***************************************************************************)
(* The response flattener: the order in which the two nested loops of      *)
(* writeQueueStatsToDb visit the interval entries.                         *)
(***************************************************************************)
\* The inner loop stopping one interval short.
ResultEntries_DropLast(result) ==
    [k \in 1..(Len(result.Data) - 1) |->
        [Group |-> result.Group, Data |-> result.Data[k]]]

ResultEntries(result) ==
    [k \in 1..Len(result.Data) |-> [Group |-> result.Group, Data |-> result.Data[k]]]

RECURSIVE Flatten(_)
Flatten(results) ==
    IF results = <<>> THEN <<>>
    ELSE ResultEntries(Head(results)) \o Flatten(Tail(results))

\* queueMap[queueID]: a Go map yields "" for a missing key.
MapGet(m, k) == IF k \in DOMAIN m THEN m[k] ELSE <<>>

\* queueName = strings.Replace(queueMap[queueID], "'", "''", -1)
\* if queueName == "" { queueName = queueID }
QueueNameText(m, queueID) ==
    LET queueName == EscapeQuotes(MapGet(m, queueID))
    IN  IF queueName = <<>> THEN queueID ELSE queueName

(***************************************************************************)
(* The table and the statements sent to it.                                *)
(***************************************************************************)
RowKey(row) == <<row.QueueID, row.MediaType, row.Interval>>

HasKey(tbl, key) == \E k \in 1..Len(tbl) : RowKey(tbl[k]) = key

\* The existence check with the media type left out of the WHERE clause.
queueIntervalExists_AnyMedia(tbl, queueID, mediaType, interval) ==
    \E k \in 1..Len(tbl) :
        /\ tbl[k].QueueID = queueID
        /\ tbl[k].Interval = BindTs(interval)

\* SELECT QueueID FROM ... WHERE QueueID = ? AND MediaType = ? AND Interval = ?
queueIntervalExists(tbl, queueID, mediaType, interval) ==
    \E k \in 1..Len(tbl) :
        /\ tbl[k].QueueID = queueID
        /\ tbl[k].MediaType = mediaType
        /\ tbl[k].Interval = BindTs(interval)

\* fmt.Sprintf("UPDATE ... SET <metrics> WHERE QueueId = '%s' AND MediaType = '%s'
\*              AND Interval = {ts '%s'}", ...)
UpdateStatement(queueID, mediaType, interval, cols) ==
    [kind |-> "UPDATE", QueueID |-> queueID, MediaType |-> mediaType,
     Interval |-> FormatTs(interval), metrics |-> cols]

\* fmt.Sprintf("INSERT INTO ... VALUES ('%s', '%s', '%s', {ts '%s'}, <metrics>)", ...)
InsertStatement(queueID, queueName, mediaType, interval, cols) ==
    [kind |-> "INSERT", QueueID |-> queueID, QueueName |-> queueName,
     MediaType |-> mediaType, Interval |-> FormatTs(interval), metrics |-> cols]

\* The statement built for one interval entry, given the result of the
\* existence check.
BuildStatement(exists, m, entry) ==
    LET queueID == entry.Group.QueueID
        mediaType == entry.Group.MediaType
        interval == ParseRFC3339(SplitFirst(entry.Data.Interval)).t
        cols == CollectMetrics(ZeroMetrics, entry.Data.Metrics)
    IN  IF exists
        THEN UpdateStatement(queueID, mediaType, interval, cols)
        ELSE InsertStatement(queueID, QueueNameText(m, queueID), mediaType, interval, cols)

\* The database parses the statement: every '%s' must be one string literal.
ValidSql(t) ==
    /\ WellQuoted(t.QueueID)
    /\ WellQuoted(t.MediaType)
    /\ t.kind = "INSERT" => WellQuoted(t.QueueName)

\* The key the database reads from the literals of a valid statement.
StatementKey(t) == <<Unquote(t.QueueID), Unquote(t.MediaType), t.Interval>>

\* CREATE INDEX QueueIndex ON ... (QueueId, MediaType, Interval) WITH PRIMARY,
\* when it was created, rejects an INSERT of a key that is present.
ViolatesIndex(tbl, idx, t) ==
    idx /\ t.kind = "INSERT" /\ HasKey(tbl, StatementKey(t))

ExecInsert(tbl, t) ==
    Append(tbl, [QueueID |-> Unquote(t.QueueID), QueueName |-> Unquote(t.QueueName),
                 MediaType |-> Unquote(t.MediaType), Interval |-> t.Interval,
                 metrics |-> t.metrics])

ExecUpdate(tbl, t) ==
    [k \in 1..Len(tbl) |->
        IF RowKey(tbl[k]) = StatementKey(t)
        THEN [tbl[k] EXCEPT !.metrics = t.metrics]
        ELSE tbl[k]]

\* db.Exec(t) when the database accepts the statement.
ExecStatement(tbl, t) ==
    IF t.kind = "INSERT" THEN ExecInsert(tbl, t) ELSE ExecUpdate(tbl, t)

CanExec(tbl, idx, t) == ValidSql(t) /\ ~ViolatesIndex(tbl, idx, t)

(***************************************************************************)
(* Time.  Instants are counted in units of five minutes since the zero     *)
(* time (UTC).  A location has one offset before an instant and another    *)
(* from it on (a daylight-saving transition), or the same offset twice.    *)
(***************************************************************************)
DayLen == 288

supportedGranularity ==
    [PT15M |-> 3, PT30M |-> 6, PT60M |-> 12, PT1H |-> 12, P1D |-> 288]

\* Location.lookup: the offset in force at instant t.
ZoneOffset(z, t) == IF t < z.at THEN z.before ELSE z.after

SamePeriod(z, t, u) == (t < z.at) = (u < z.at)

\* time.Now().Date(): the civil day of the instant in the location.
LocalDay(z, t) == (t + ZoneOffset(z, t)) \div DayLen

LocalClock(z, t) == (t + ZoneOffset(z, t)) % DayLen

\* time.Date(y, m, d, 0, 0, 0, 0, l): look the offset up at the wall clock read
\* as UTC, and once more at the result when that leaves the offset's period.
GoDate(z, wall) ==
    LET offset == ZoneOffset(z, wall)
        utc == wall - offset
    IN  IF offset = 0 THEN wall
        ELSE IF SamePeriod(z, utc, wall) THEN utc
        ELSE wall - ZoneOffset(z, utc)

\* Rounding up instead of down.
Truncate_Up(t, d) == t - (t % d) + d

\* Time.Truncate(d): round down to a multiple of d since the zero time.
Truncate(t, d) == t - (t % d)

\* The start and end of the query interval (getPureCloudQueueStats).
QueryWindow(granularity, t, z) ==
    IF granularity = "P1D"
    THEN LET startInterval == GoDate(z, LocalDay(z, t) * DayLen)
         IN  [start |-> startInterval, end |-> startInterval + DayLen]
    ELSE LET startInterval == Truncate(t, supportedGranularity[granularity])
         IN  [start |-> startInterval,
              end |-> startInterval + supportedGranularity[granularity]]

(***************************************************************************)
(* Inputs: queue ids, names, media types, interval entries, responses,     *)
(* queue maps and the tables found at start-up.                            *)
(***************************************************************************)
Queue1 == <<"q", "1">>
QueueQ == <<"q", "'", "'">>
Voice == <<"v", "o", "i", "c", "e">>
NoMediaType == <<>>
NameOld == <<"O", "l", "d">>
NameNew == <<"O", "'", "B">>

Stats(count, sum, max) == [Count |-> count, Sum |-> sum, Max |-> max]
MetricOffered == [Metric |-> "nOffered", Stats |-> Stats(3, 0, 0)]
MetricAcd == [Metric |-> "tAcd", Stats |-> Stats(2, 9, 5)]
MetricUnknown == [Metric |-> "nBlindTransferred", Stats |-> Stats(1, 0, 0)]

DataEntries ==
    { [Interval |-> <<Timestamp(0, "+01:00"), Timestamp(1, "+01:00")>>,
       Metrics |-> <<MetricAcd, MetricOffered>>],
      [Interval |-> <<NotATimestamp>>, Metrics |-> <<MetricOffered>>],
      [Interval |-> <<Timestamp(0, "Z"), Timestamp(1, "Z")>>,
       Metrics |-> <<MetricOffered, MetricUnknown>>] }

Groups ==
    { [QueueID |-> Queue1, MediaType |-> Voice],
      [QueueID |-> QueueQ, MediaType |-> Voice],
      [QueueID |-> Queue1, MediaType |-> NoMediaType] }

Results == [Group : Groups, Data : SeqUpTo(DataEntries, MaxData)]

Responses == SeqUpTo(Results, MaxResults)

NoQueues == [q \in {} |-> <<>>]
QueueMaps == {NoQueues, [q \in {Queue1} |-> NameNew]}

StoredRow == [QueueID |-> Queue1, QueueName |-> NameOld, MediaType |-> Voice,
              Interval |-> 0, metrics |-> [ZeroMetrics EXCEPT !["nOffered"] = 1]]

InitialTables == {<<>>, <<StoredRow>>}

ConfigGranularities == {"PT30M", "PT5M"}

UTC == [before |-> 0, after |-> 0, at |-> 0]

(***************************************************************************)
(* main                                                                    *)
(***************************************************************************)
Init ==
    /\ pc = "config"
    /\ appConfig = [Granularity |-> ""]
    /\ table \in InitialTables
    /\ hasIndex = FALSE
    /\ queueMap = NoQueues
    /\ dataset = <<>>
    /\ query = [start |-> 0, end |-> 0]
    /\ i = 0
    /\ nChecks = 0
    /\ stmts = <<>>
    /\ lastTable = table
    /\ err = "none"
    /\ okSteps = {}
    /\ run = 1
    /\ firstTable = <<>>
    /\ now = DayLen + 100
    /\ zone = UTC

\* The error is recorded but control does not return.
Abort_NoReturn(step) ==
    /\ pc' = pc
    /\ err' = step

\* main returns after printing the error of a step.
Abort(step) ==
    /\ pc' = "failed"
    /\ err' = step

Advance(step, next) ==
    /\ pc' = next
    /\ okSteps' = okSteps \cup {step}

\* loadAppConfig: the file is read and decoded and the granularity is supported.
LoadAppConfigOk ==
    /\ pc = "config"
    /\ \E g \in ConfigGranularities :
          /\ g \in DOMAIN supportedGranularity
          /\ appConfig' = [Granularity |-> g]
    /\ Advance("config", "open")
    /\ UNCHANGED <<table, hasIndex, queueMap, dataset, query, i, nChecks, stmts,
                   lastTable, err, run, firstTable, now, zone>>

\* loadAppConfig: no argument, unreadable file or undecodable JSON.
LoadAppConfigUnreadable ==
    /\ pc = "config"
    /\ Abort("config")
    /\ UNCHANGED <<appConfig, table, hasIndex, queueMap, dataset, query, i, nChecks,
                   stmts, lastTable, okSteps, run, firstTable, now, zone>>

\* loadAppConfig: decoded, but the granularity is not a supported one.
LoadAppConfigInvalid ==
    /\ pc = "config"
    /\ \E g \in ConfigGranularities :
          /\ g \notin DOMAIN supportedGranularity
          /\ appConfig' = [Granularity |-> g]
    /\ Abort("config")
    /\ UNCHANGED <<table, hasIndex, queueMap, dataset, query, i, nChecks, stmts,
                   lastTable, okSteps, run, firstTable, now, zone>>

\* sql.Open
OpenDbOk ==
    /\ pc = "open"
    /\ Advance("open", "ping")
    /\ UNCHANGED <<appConfig, table, hasIndex, queueMap, dataset, query, i, nChecks,
                   stmts, lastTable, err, run, firstTable, now, zone>>

OpenDbFails ==
    /\ pc = "open"
    /\ Abort("open")
    /\ UNCHANGED <<appConfig, table, hasIndex, queueMap, dataset, query, i, nChecks,
                   stmts, lastTable, okSteps, run, firstTable, now, zone>>

\* db.Ping
PingOk ==
    /\ pc = "ping"
    /\ Advance("ping", "prepare")
    /\ UNCHANGED <<appConfig, table, hasIndex, queueMap, dataset, query, i, nChecks,
                   stmts, lastTable, err, run, firstTable, now, zone>>

PingFails ==
    /\ pc = "ping"
    /\ Abort("ping")
    /\ UNCHANGED <<appConfig, table, hasIndex, queueMap, dataset, query, i, nChecks,
                   stmts, lastTable, okSteps, run, firstTable, now, zone>>

\* prepareDbTables: CREATE TABLE and CREATE INDEX, errors printed and ignored.
\* The table and its rows stay when it exists; the index is there afterwards
\* or it is not.
prepareDbTables ==
    /\ pc = "prepare"
    /\ hasIndex' \in BOOLEAN
    /\ Advance("prepare", "login")
    /\ UNCHANGED <<appConfig, table, queueMap, dataset, query, i, nChecks, stmts,
                   lastTable, err, run, firstTable, now, zone>>

\* loginToPureCloud
loginToPureCloudOk ==
    /\ pc = "login"
    /\ Advance("login", "queues")
    /\ UNCHANGED <<appConfig, table, hasIndex, queueMap, dataset, query, i, nChecks,
                   stmts, lastTable, err, run, firstTable, now, zone>>

loginToPureCloudFails ==
    /\ pc = "login"
    /\ Abort("login")
    /\ UNCHANGED <<appConfig, table, hasIndex, queueMap, dataset, query, i, nChecks,
                   stmts, lastTable, okSteps, run, firstTable, now, zone>>

\* getPureCloudQueues
getPureCloudQueuesOk ==
    /\ pc = "queues"
    /\ queueMap' \in QueueMaps
    /\ Advance("queues", "stats")
    /\ UNCHANGED <<appConfig, table, hasIndex, dataset, query, i, nChecks, stmts,
                   lastTable, err, run, firstTable, now, zone>>

getPureCloudQueuesFails ==
    /\ pc = "queues"
    /\ Abort("queues")
    /\ UNCHANGED <<appConfig, table, hasIndex, queueMap, dataset, query, i, nChecks,
                   stmts, lastTable, okSteps, run, firstTable, now, zone>>

\* getPureCloudQueueStats, up to the API call: the interval of the query is
\* computed from the clock and the configured granularity.
buildAggregationQuery ==
    /\ pc = "stats"
    /\ query' = QueryWindow(appConfig.Granularity, now, zone)
    /\ pc' = "query"
    /\ UNCHANGED <<appConfig, table, hasIndex, queueMap, dataset, i, nChecks, stmts,
                   lastTable, err, okSteps, run, firstTable, now, zone>>

\* getPureCloudQueueStats: analytics.QueryConversationAggregates answers.
getPureCloudQueueStatsOk ==
    /\ pc = "query"
    /\ dataset' \in Responses
    /\ Advance("stats", "write")
    /\ UNCHANGED <<appConfig, table, hasIndex, queueMap, query, i, nChecks, stmts,
                   lastTable, err, run, firstTable, now, zone>>

getPureCloudQueueStatsFails ==
    /\ pc = "query"
    /\ Abort("stats")
    /\ UNCHANGED <<appConfig, table, hasIndex, queueMap, dataset, query, i, nChecks,
                   stmts, lastTable, okSteps, run, firstTable, now, zone>>

(***************************************************************************)
(* writeQueueStatsToDb, one interval entry at a time.                      *)
(***************************************************************************)
Entries == Flatten(dataset)

Current == Entries[i + 1]

AtEntry == pc = "write" /\ i < Len(Entries)

IntervalParses(entry) == ParseRFC3339(SplitFirst(entry.Data.Interval)).ok

\* The fields of the entry as the existence check receives them.
EntryInterval(entry) == ParseRFC3339(SplitFirst(entry.Data.Interval)).t

EntryExists(tbl, entry) ==
    queueIntervalExists(tbl, entry.Group.QueueID, entry.Group.MediaType,
                        EntryInterval(entry))

\* A timestamp that does not parse is skipped instead of being fatal.
ParsePanic_Skip ==
    /\ AtEntry
    /\ ~IntervalParses(Current)
    /\ i' = i + 1
    /\ UNCHANGED <<pc, appConfig, table, hasIndex, queueMap, dataset, query, nChecks,
                   stmts, lastTable, err, okSteps, run, firstTable, now, zone>>

\* panic("Could not parse interval ...")
ParsePanic ==
    /\ AtEntry
    /\ ~IntervalParses(Current)
    /\ pc' = "panic"
    /\ UNCHANGED <<appConfig, table, hasIndex, queueMap, dataset, query, i, nChecks,
                   stmts, lastTable, err, okSteps, run, firstTable, now, zone>>

\* panic("Unrecognized metric ...")
MetricPanic ==
    /\ AtEntry
    /\ IntervalParses(Current)
    /\ ~AllRecognized(Current.Data.Metrics)
    /\ pc' = "panic"
    /\ UNCHANGED <<appConfig, table, hasIndex, queueMap, dataset, query, i, nChecks,
                   stmts, lastTable, err, okSteps, run, firstTable, now, zone>>

WellShaped(entry) == IntervalParses(entry) /\ AllRecognized(entry.Data.Metrics)

\* queueIntervalExists returns an error other than sql.ErrNoRows.
ExistsFails ==
    /\ AtEntry
    /\ WellShaped(Current)
    /\ nChecks' = nChecks + 1
    /\ Abort("exists")
    /\ UNCHANGED <<appConfig, table, hasIndex, queueMap, dataset, query, i, stmts,
                   lastTable, okSteps, run, firstTable, now, zone>>

\* The existence check answers, the statement is built and db.Exec succeeds.
WriteRow ==
    /\ AtEntry
    /\ WellShaped(Current)
    /\ LET t == BuildStatement(EntryExists(table, Current), queueMap, Current)
       IN  /\ CanExec(table, hasIndex, t)
           /\ table' = ExecStatement(table, t)
           /\ stmts' = Append(stmts, [sql |-> t, ok |-> TRUE])
    /\ nChecks' = nChecks + 1
    /\ lastTable' = table
    /\ i' = i + 1
    /\ UNCHANGED <<pc, appConfig, hasIndex, queueMap, dataset, query, err, okSteps,
                   run, firstTable, now, zone>>

\* The existence check answers, the statement is built and db.Exec returns an
\* error: the statement is rejected, or the driver or the connection fails.
WriteFails ==
    /\ AtEntry
    /\ WellShaped(Current)
    /\ LET t == BuildStatement(EntryExists(table, Current), queueMap, Current)
       IN  stmts' = Append(stmts, [sql |-> t, ok |-> FALSE])
    /\ nChecks' = nChecks + 1
    /\ lastTable' = table
    /\ Abort("exec")
    /\ UNCHANGED <<appConfig, table, hasIndex, queueMap, dataset, query, i, okSteps,
                   run, firstTable, now, zone>>

\* Both loops are over: "Writing done", the writer returns nil and main ends.
WritingDone ==
    /\ pc = "write"
    /\ i = Len(Entries)
    /\ Advance("write", "done")
    /\ UNCHANGED <<appConfig, table, hasIndex, queueMap, dataset, query, i, nChecks,
                   stmts, lastTable, err, run, firstTable, now, zone>>

Next ==
    \/ LoadAppConfigOk
    \/ LoadAppConfigUnreadable
    \/ LoadAppConfigInvalid
    \/ OpenDbOk
    \/ OpenDbFails
    \/ PingOk
    \/ PingFails
    \/ prepareDbTables
    \/ loginToPureCloudOk
    \/ loginToPureCloudFails
    \/ getPureCloudQueuesOk
    \/ getPureCloudQueuesFails
    \/ buildAggregationQuery
    \/ getPureCloudQueueStatsOk
    \/ getPureCloudQueueStatsFails
    \/ ParsePanic
    \/ MetricPanic
    \/ ExistsFails
    \/ WriteRow
    \/ WriteFails
    \/ WritingDone

Spec == Init /\ [][Next]_vars

(***************************************************************************)
(* The writer called a second time with the same response and queue map.   *)
(***************************************************************************)
PipelineSteps == <<"config", "open", "ping", "prepare", "login", "queues", "stats", "write">>

InitIdem ==
    /\ pc = "write"
    /\ appConfig = [Granularity |-> "PT30M"]
    /\ table \in InitialTables
    /\ hasIndex \in BOOLEAN
    /\ queueMap \in QueueMaps
    /\ dataset \in Responses
    /\ now = DayLen + 100
    /\ zone = UTC
    /\ query = QueryWindow("PT30M", now, zone)
    /\ i = 0
    /\ nChecks = 0
    /\ stmts = <<>>
    /\ lastTable = table
    /\ err = "none"
    /\ okSteps = {PipelineSteps[k] : k \in 1..7}
    /\ run = 1
    /\ firstTable = <<>>

\* writeQueueStatsToDb(resp, queues) returned nil and is called again.
WriteAgain ==
    /\ pc = "done"
    /\ run = 1
    /\ run' = 2
    /\ firstTable' = table
    /\ pc' = "write"
    /\ i' = 0
    /\ nChecks' = 0
    /\ stmts' = <<>>
    /\ lastTable' = table
    /\ UNCHANGED <<appConfig, table, hasIndex, queueMap, dataset, query, err, okSteps,
                   now, zone>>

NextIdem ==
    \/ ParsePanic
    \/ MetricPanic
    \/ ExistsFails
    \/ WriteRow
    \/ WriteFails
    \/ WritingDone
    \/ WriteAgain

SpecIdem == InitIdem /\ [][NextIdem]_vars

(***************************************************************************)
(* The query interval, for every granularity, clock reading and location.  *)
(***************************************************************************)
Fixed(offset) == [before |-> offset, after |-> offset, at |-> 0]

\* A transition to offset `after` at the instant the old wall clock shows
\* `clock` on day 2.
Shift(before, after, clock) ==
    [before |-> before, after |-> after, at |-> 2 * DayLen + clock - before]

Zones ==
    { UTC, Fixed(69), Fixed(-60),
      Shift(-60, -48, 24), Shift(-48, -60, 24),
      Shift(24, 36, 0), Shift(36, 24, 0),
      Shift(-36, -24, 0), Shift(-24, -36, 12), Shift(36, 24, 12) }

Instants == DayLen .. ((MaxDays + 1) * DayLen - 1)

InitWindow ==
    /\ pc = "stats"
    /\ appConfig \in [Granularity : DOMAIN supportedGranularity]
    /\ now \in Instants
    /\ zone \in Zones
    /\ table = <<>>
    /\ hasIndex = FALSE
    /\ queueMap = NoQueues
    /\ dataset = <<>>
    /\ query = [start |-> 0, end |-> 0]
    /\ i = 0
    /\ nChecks = 0
    /\ stmts = <<>>
    /\ lastTable = <<>>
    /\ err = "none"
    /\ okSteps = {PipelineSteps[k] : k \in 1..6}
    /\ run = 1
    /\ firstTable = <<>>

NextWindow ==
    \/ buildAggregationQuery
    \/ getPureCloudQueueStatsFails

SpecWindow == InitWindow /\ [][NextWindow]_vars

(***************************************************************************)
(* Properties.                                                             *)
(***************************************************************************)
LastStmt == stmts[Len(stmts)]

\* The key of the k-th interval entry as the response states it.
StatedKey(k) ==
    <<Entries[k].Group.QueueID, Entries[k].Group.MediaType,
      Entries[k].Data.Interval[1].wall>>

\* The queue name the k-th interval entry's row is to carry.
StatedName(k) ==
    LET queueID == Entries[k].Group.QueueID
    IN  IF queueID \in DOMAIN queueMap /\ queueMap[queueID] # <<>>
        THEN queueMap[queueID] ELSE queueID

RECURSIVE TotalIntervals(_)
TotalIntervals(results) ==
    IF results = <<>> THEN 0
    ELSE Len(Head(results).Data) + TotalIntervals(Tail(results))

Faulty(entry) ==
    \/ entry.Data.Interval = <<>>
    \/ ~entry.Data.Interval[1].rfc3339
    \/ \E k \in 1..Len(entry.Data.Metrics) :
          entry.Data.Metrics[k].Metric \notin CountMetrics \cup TimeMetrics

UniqueKeys(tbl) ==
    \A j, k \in 1..Len(tbl) : j # k => RowKey(tbl[j]) # RowKey(tbl[k])

\* C1: every interval entry that reaches the writer's existence check gets
\* exactly one statement, an UPDATE when the table at that moment holds a row
\* with the entry's QueueID, MediaType and Interval, an INSERT when it does not.
C1_StatementChosenByTable ==
    /\ Len(stmts) = i + (IF err = "exec" THEN 1 ELSE 0)
    /\ stmts # <<>> =>
          LastStmt.sql.kind =
             IF \E k \in 1..Len(lastTable) : RowKey(lastTable[k]) = StatedKey(Len(stmts))
             THEN "UPDATE" ELSE "INSERT"

\* An INSERT of a new key followed, in the same batch, by an UPDATE of it.
C1_Witness ==
    /\ Len(stmts) = 2
    /\ stmts[1].sql.kind = "INSERT" /\ stmts[1].ok
    /\ stmts[2].sql.kind = "UPDATE" /\ stmts[2].ok
    /\ StatedKey(1) = StatedKey(2)

\* C2: no two rows of the table share QueueID, MediaType and Interval, whether
\* or not the unique index was created.
C2_UniqueKeys == UniqueKeys(table)

\* C3: after an UPDATE every column of the stored row other than the key, the
\* queue name included, has the value computed for the new row.
C3_UpdateOverwritesAll ==
    (stmts # <<>> /\ LastStmt.ok /\ LastStmt.sql.kind = "UPDATE") =>
        \A k \in 1..Len(table) :
            RowKey(table[k]) = StatedKey(Len(stmts)) =>
                /\ table[k].metrics = LastStmt.sql.metrics
                /\ table[k].QueueName = StatedName(Len(stmts))

C5_FaultIsFatalInv ==
    /\ \A k \in 1..Len(Entries) :
          Faulty(Entries[k]) =>
             /\ Len(stmts) < k
             /\ nChecks < k
             /\ i < k
             /\ pc # "done"
    /\ pc = "panic" => Faulty(Entries[i + 1])

\* C5: the invariant above, and the step taken at a faulty entry is the panic.
C5_FaultIsFatal ==
    /\ []C5_FaultIsFatalInv
    /\ [][(pc = "write" /\ i < Len(Entries) /\ Faulty(Entries[i + 1]))
              => pc' = "panic"]_vars

\* A panic after one row was written.
C5_Witness ==
    /\ pc = "panic"
    /\ i = 1
    /\ Len(stmts) = 1

\* C6: a failed step ends the run: main has returned, no step after the failed
\* one has run, rows are only checked or written after config, login, queue
\* fetch and query fetch succeeded, and after a failed existence check or
\* write no further row is checked or written.
C6_AbortOnFirstFailureInv ==
    /\ (nChecks > 0 \/ stmts # <<>>) =>
          {"config", "login", "queues", "stats"} \subseteq okSteps
    /\ err # "none" => pc = "failed"
    /\ \A j \in 1..Len(PipelineSteps) :
          \/ PipelineSteps[j] \notin okSteps
          \/ /\ err \notin {PipelineSteps[k] : k \in 1..j}
             /\ \A k \in 1..(j - 1) : PipelineSteps[k] \in okSteps
    /\ err \in {"exists", "exec"} => "write" \notin okSteps /\ i < Len(Entries)
    /\ err = "exists" => nChecks = i + 1 /\ Len(stmts) = i
    /\ err = "exec" => nChecks = i + 1 /\ Len(stmts) = i + 1 /\ ~LastStmt.ok
    /\ \A k \in 1..(Len(stmts) - 1) : stmts[k].ok
    /\ nChecks <= Len(Entries)

\* C6: the invariant above, and once main has returned on an error the table,
\* the checks, the statements and the completed steps no longer change.
C6_AbortOnFirstFailure ==
    /\ []C6_AbortOnFirstFailureInv
    /\ [][pc = "failed" => UNCHANGED <<table, nChecks, stmts, okSteps>>]_vars

\* The existence check of the first of two rows fails.
C6_Witness ==
    /\ err = "exists"
    /\ pc = "failed"
    /\ i = 0
    /\ Len(Entries) = 2

C9_NoEmptyMediaType ==
    /\ \A k \in 1..Len(table) : table[k].MediaType # NoMediaType
    /\ \A k \in 1..Len(stmts) : Entries[k].Group.MediaType # NoMediaType

\* C10: a second call of the writer with the same response and queue map, all
\* database calls succeeding, issues only UPDATEs and leaves the table as the
\* first call left it.
C10_Idempotent ==
    (run = 2 /\ pc = "done") =>
        /\ table = firstTable
        /\ \A k \in 1..Len(stmts) : stmts[k].sql.kind = "UPDATE"

Granularity == appConfig.Granularity

Duration == supportedGranularity[Granularity]

\* The offset of the location is the same over the whole of the local day
\* the clock reading falls in, and over the instants that share its date.
NoShiftToday ==
    \/ zone.before = zone.after
    \/ /\ LocalDay(zone, zone.at) # LocalDay(zone, now)
       /\ LocalDay(zone, zone.at - 1) # LocalDay(zone, now)

WindowLength == query.end - query.start = Duration

WindowHoldsNow == query.start <= now /\ now < query.end

StartsAtLocalMidnight ==
    /\ LocalClock(zone, query.start) = 0
    /\ LocalDay(zone, query.start) = LocalDay(zone, now)

StartsAtMultiple ==
    /\ query.start % Duration = 0
    /\ now - query.start < Duration

\* C7 as stated: the window has the length of the granularity and holds the
\* clock reading, in every case; it starts at local midnight of today for P1D
\* and at the clock reading truncated to the duration otherwise.
C7_WindowAsStated ==
    pc = "query" =>
        /\ WindowLength
        /\ WindowHoldsNow
        /\ IF Granularity = "P1D" THEN StartsAtLocalMidnight ELSE StartsAtMultiple

\* C7, amended: the window always has the length of the granularity; for the
\* sub-day granularities it starts at the clock reading truncated to the
\* duration and holds the clock reading; for P1D it starts at local midnight
\* of today and holds the clock reading when the offset of the location does
\* not change during the local day.
C7_Window ==
    pc = "query" =>
        /\ WindowLength
        /\ Granularity # "P1D" => StartsAtMultiple /\ WindowHoldsNow
        /\ (Granularity = "P1D" /\ NoShiftToday) =>
              StartsAtLocalMidnight /\ WindowHoldsNow

\* A day window in a location that has a transition, on a day without one.
C7_Witness ==
    /\ pc = "query"
    /\ Granularity = "P1D"
    /\ zone.before # zone.after
    /\ NoShiftToday
    /\ query.start < now

====
